---- MODULE Spec2Model ----
(***************************************************************************)
(* Model of hpp-manipulation's sampling-based manipulation planner:        *)
(*   - GraphPathValidation::validate   (src/src/graph-path-validation.cc)  *)
(*   - ManipulationPlanner::create, oneStep, extend, edgeStat,             *)
(*     getEdgeStat, errorList, tryConnectNewNodes, tryConnectToRoadmap     *)
(*                                      (src/src/manipulation-planner.cc)  *)
(*                                                                         *)
(* The configuration space is a line of MaxCell+1 cells; a configuration   *)
(* is an integer position, Scale positions per cell, so that the           *)
(* cautious-extension fraction extendStep_ = 1/2 stays exact.  The         *)
(* capabilities the code consumes (collision validation, the constraint    *)
(* graph, steering, projection) are environment: either a deterministic    *)
(* function of a world drawn in Init, or a choice made with \E.            *)
(***************************************************************************)
EXTENDS Integers, Sequences, FiniteSets, TLC

\* ------------------------------------------------------------------ bounds
\* oneStep is called again while fewer calls of extend than this were made.
MaxExtends == 2
\* Cells of the configuration line are 0..MaxCell.
MaxCell == 3
\* Positions per cell.  A call of extend halves a length at most once, and
\* the last step makes at most three calls beyond MaxExtends, so that every
\* length the fraction extendStep_ = 1/2 is applied to stays even.
Scale == 2 ^ (MaxExtends + 3)

Cells == 0 .. MaxCell
Pos(c) == c * Scale
CoarseConfs == { Pos(c) : c \in Cells }

Abs(x) == IF x >= 0 THEN x ELSE -x
SetMin(S) == CHOOSE x \in S : \A y \in S : x <= y
SetMax(S) == CHOOSE x \in S : \A y \in S : x >= y

\* ------------------------------------------------------------------- paths
\* core::Path, as the code uses it: timeRange, length, operator(), extract,
\* constraints.  A leaf is a straight path from a to b parametrised by arc
\* length on [0, |b - a|]; cons is the id of the edge whose path constraint
\* is attached (0: the constraints the path was built with).
NoPath == [kind |-> "null"]
Leaf(a, b, c) == [kind |-> "leaf", a |-> a, b |-> b, cons |-> c]
\* core::PathVector: an ordered sequence of sub-paths.
Vec(subs) == [kind |-> "vec", subs |-> subs]

RECURSIVE length(_)
length(p) ==
    IF p.kind = "leaf" THEN Abs(p.b - p.a)
    ELSE IF p.subs = <<>> THEN 0
    ELSE length(Head(p.subs)) + length(Vec(Tail(p.subs)))

\* Configuration of the path at time t (0 <= t <= length).
RECURSIVE eval(_, _)
eval(p, t) ==
    IF p.kind = "leaf"
    THEN IF p.b >= p.a THEN p.a + t ELSE p.a - t
    ELSE LET h == Head(p.subs) IN
         IF t <= length(h) \/ Len(p.subs) = 1
         THEN eval(h, t)
         ELSE eval(Vec(Tail(p.subs)), t - length(h))

PathStart(p) == eval(p, 0)
PathEnd(p) == eval(p, length(p))

\* path->extract (interval_t (t1, t2)) for t1 <= t2.
RECURSIVE extractFwd(_, _, _)
extractFwd(p, t1, t2) ==
    IF p.kind = "leaf"
    THEN Leaf(eval(p, t1), eval(p, t2), p.cons)
    ELSE LET h == Head(p.subs)
             l == length(h)
         IN  IF Len(p.subs) = 1
             THEN Vec(<<extractFwd(h, t1, t2)>>)
             ELSE IF t2 <= l
             THEN Vec(<<extractFwd(h, t1, t2)>>)
             ELSE IF t1 >= l
             THEN extractFwd(Vec(Tail(p.subs)), t1 - l, t2 - l)
             ELSE Vec(<<extractFwd(h, t1, l)>>
                      \o extractFwd(Vec(Tail(p.subs)), 0, t2 - l).subs)

\* The time-reversed path: a reversed interval is read as time reversal.
RECURSIVE reversePath(_)
reversePath(p) ==
    IF p.kind = "leaf"
    THEN Leaf(p.b, p.a, p.cons)
    ELSE IF p.subs = <<>> THEN p
    ELSE Vec(reversePath(Vec(Tail(p.subs))).subs
             \o <<reversePath(Head(p.subs))>>)

\* path->extract (interval_t (t1, t2)), either way round.
extract(p, t1, t2) ==
    IF t1 <= t2 THEN extractFwd(p, t1, t2)
    ELSE reversePath(extractFwd(p, t2, t1))

\* ------------------------------------------------------------------- world
\* What the external capabilities answer, fixed for a behaviour:
\*   obst    cells that hold an obstacle (collision within one cell of it),
\*   nonode  cells whose configurations lie in no constraint-graph node,
\*   onLeaf  ids of the edges whose path constraint, offset at the start of
\*           a path, is satisfied at the end of its collision-free part
\*           when that part has an end other than its start,
\*   throws  whether Path::extract raises core::projection_error.
World(obst, nonode, onLeaf, throws) ==
    [obst |-> obst, nonode |-> nonode, onLeaf |-> onLeaf, throws |-> throws]

InCollision(w, q) ==
    \E o \in w.obst : q > Pos(o) - Scale /\ q < Pos(o) + Scale

\* End of the longest collision-free part of the straight path a -> b that
\* starts at a (a itself when a is in collision).
ValidEnd(w, a, b) ==
    IF InCollision(w, a) THEN a
    ELSE IF b >= a
    THEN LET blk == { o \in w.obst : Pos(o) > a } IN
         IF blk = {} THEN b
         ELSE LET lim == Pos(SetMin(blk)) - Scale IN
              IF b <= lim THEN b ELSE lim
    ELSE LET blk == { o \in w.obst : Pos(o) < a } IN
         IF blk = {} THEN b
         ELSE LET lim == Pos(SetMax(blk)) + Scale IN
              IF b >= lim THEN b ELSE lim

\* pathValidation_->validate (path, reverse, pathNoCollision) on a leaf: the
\* collision-based validator; valid prefix, or valid suffix when reverse.
collisionValidate(w, p, reverse) ==
    IF ~reverse
    THEN LET c == ValidEnd(w, p.a, p.b) IN
         [ok |-> c = p.b, part |-> Leaf(p.a, c, p.cons)]
    ELSE LET c == ValidEnd(w, p.b, p.a) IN
         [ok |-> c = p.a, part |-> Leaf(c, p.b, p.cons)]

\* ------------------------------------------------------- constraint graph
GraspCells == (MaxCell - 1) .. MaxCell
\* Node selector order.
GraphNodes == <<"free", "grasp">>
GraphEdge(id, name, from, to) ==
    [id |-> id, name |-> name, from |-> from, to |-> to]
\* Edges in graph construction order; ids are those of graph components,
\* shared with nodes and selectors, hence not contiguous.
GraphEdges ==
    << GraphEdge(1, "move", "free", "free"),
       GraphEdge(2, "grasp", "free", "grasp"),
       GraphEdge(4, "hold", "grasp", "grasp") >>
EdgeIds == { GraphEdges[i].id : i \in DOMAIN GraphEdges }
EdgeOfId(id) == CHOOSE e \in { GraphEdges[i] : i \in DOMAIN GraphEdges } : e.id = id

\* constraintGraph_->getNode (q): the nodes containing q; the empty set
\* stands for the std::logic_error the graph raises when there is none.
getNode(w, q) ==
    IF (q \div Scale) \in w.nonode THEN {}
    ELSE IF (q \div Scale) \in GraspCells THEN {"grasp"}
    ELSE {"free"}

\* constraintGraph_->getEdge (origNodes, destNodes): candidate transitions.
getEdge(orig, dest) ==
    LET T(e) == e.from \in orig /\ e.to \in dest IN SelectSeq(GraphEdges, T)

\* constraints->isSatisfied (q) after constraints->offsetFromConfig
\* (offset): the constraint holds at the configuration it was offset from
\* (the assertion of line 122), and elsewhere as the world tells.
isSatisfied(w, e, offset, q) == q = offset \/ e.id \in w.onLeaf

\* ------------------------------------------------ GraphPathValidation
\* What a call of validate leaves: status "ret" with the returned boolean
\* and validPart, "throw" when core::projection_error leaves the call,
\* "assert" when the assertion on reverse leaf paths fails; nested is the
\* number of calls of impl_validate on pathNoCollision (line 125) that were
\* nested in the validation of the leaf the call ended on.
Ret(ok, part) == [status |-> "ret", ok |-> ok, part |-> part, nested |-> 0]
Thrown == [status |-> "throw", ok |-> FALSE, part |-> NoPath, nested |-> 0]
AssertFailed == [status |-> "assert", ok |-> FALSE, part |-> NoPath, nested |-> 0]

\* A handler that hands back the whole path.
extractWhole(w, path) == Ret(FALSE, path)

\* path->extract (std::make_pair (oldTmin, oldTmin)), which may raise.
extractZero(w, path) ==
    IF w.throws THEN Thrown ELSE Ret(FALSE, extract(path, 0, 0))

\* Sub-paths appended before validSubPart when sub-path i (1-based) is the
\* first invalid one, forward: the loop runs i - 1 times and appends
\* path->pathAtRank (i)->copy () each time.
validPrefixParts(path, i) == [v \in 1 .. (i - 1) |-> path.subs[i]]

\* The same for reverse validation: Len - i copies of sub-path i.
validSuffixParts(path, i) == [v \in 1 .. (Len(path.subs) - i) |-> path.subs[i]]

RECURSIVE impl_validate(_, _, _)
RECURSIVE validateForward(_, _, _)
RECURSIVE validateReverse(_, _, _)
RECURSIVE tryPossibleEdges(_, _, _, _, _)

\* impl_validate (PathVectorPtr_t), forward loop from sub-path i.  (The
\* one-element set, here and in the reverse loop, names what the call on
\* the sub-path left, so that it is computed once.)
validateForward(w, path, i) ==
    IF i > Len(path.subs) THEN Ret(TRUE, path)
    ELSE CHOOSE out \in
             { IF r.status # "ret" THEN r
               ELSE IF ~r.ok
               THEN [Ret(FALSE, Vec(validPrefixParts(path, i) \o <<r.part>>))
                        EXCEPT !.nested = r.nested]
               ELSE validateForward(w, path, i + 1) :
                 r \in { impl_validate(w, path.subs[i], FALSE) } } : TRUE

\* impl_validate (PathVectorPtr_t), reverse loop from sub-path i down.
validateReverse(w, path, i) ==
    IF i < 1 THEN Ret(TRUE, path)
    ELSE CHOOSE out \in
             { IF r.status # "ret" THEN r
               ELSE IF ~r.ok
               THEN [Ret(FALSE, Vec(validSuffixParts(path, i) \o <<r.part>>))
                        EXCEPT !.nested = r.nested]
               ELSE validateReverse(w, path, i - 1) :
                 r \in { impl_validate(w, path.subs[i], TRUE) } } : TRUE

\* A branch that returns what the nested call returned.
returnsRevalidation(r) == r

\* Lines 125-126: the nested call has left r in validPart; return false.
afterRevalidation(r) ==
    IF r.status = "ret"
    THEN [Ret(FALSE, r.part) EXCEPT !.nested = r.nested + 1]
    ELSE r

\* The while loop over possibleEdges, examined from the back.
tryPossibleEdges(w, path, pathNoCollision, reverse, possibleEdges) ==
    IF possibleEdges = <<>> THEN extractZero(w, path)
    ELSE LET e == possibleEdges[Len(possibleEdges)] IN
         IF isSatisfied(w, e, PathStart(pathNoCollision),
                        PathEnd(pathNoCollision))
         THEN afterRevalidation(
                  impl_validate(w, [pathNoCollision EXCEPT !.cons = e.id],
                                reverse))
         ELSE tryPossibleEdges(w, path, pathNoCollision, reverse,
                               SubSeq(possibleEdges, 1, Len(possibleEdges) - 1))

\* A comparison that never finds the shortened path on the same nodes.
neverSameNodes(origNodes, destNodes, oldOrig, oldDest) == FALSE

\* The comparison of lines 99-100: the ends of pathNoCollision lie in the
\* nodes of the ends of path.
sameNodes(origNodes, destNodes, oldOrig, oldDest) ==
    origNodes = oldOrig /\ destNodes = oldDest

\* impl_validate (PathPtr_t).
impl_validate(w, path, reverse) ==
    IF path.kind = "vec"
    THEN IF reverse THEN validateReverse(w, path, Len(path.subs))
         ELSE validateForward(w, path, 1)
    ELSE LET cv == collisionValidate(w, path, reverse)
             pathNoCollision == cv.part
             origNodes == getNode(w, PathStart(pathNoCollision))
             destNodes == getNode(w, PathEnd(pathNoCollision))
             oldOrig == getNode(w, PathStart(path))
             oldDest == getNode(w, PathEnd(path))
         IN  IF cv.ok THEN Ret(TRUE, path)
             ELSE IF origNodes = {} \/ destNodes = {} THEN extractZero(w, path)
             ELSE IF oldOrig = {} THEN extractZero(w, path)
             ELSE IF origNodes = oldOrig /\ oldDest = {} THEN extractZero(w, path)
             ELSE IF sameNodes(origNodes, destNodes, oldOrig, oldDest)
             THEN Ret(FALSE, pathNoCollision)
             ELSE IF reverse THEN AssertFailed
             ELSE tryPossibleEdges(w, path, pathNoCollision, reverse,
                                   getEdge(origNodes, destNodes))

\* GraphPathValidation::validate.
validate(w, path, reverse) == impl_validate(w, path, reverse)

\* ------------------------------------------------------ edge statistics
\* Indices into reasons_ (the Reason enumeration).
PROJECTION == 0
STEERING_METHOD == 1
PATH_VALIDATION_ZERO == 2
PATH_PROJECTION_ZERO == 3
PATH_PROJECTION_SHORTER == 4
PATH_VALIDATION_SHORTER == 5
PARTLY_EXTENDED == 6

\* reasons_: the failure reasons, by index.
reasons_ ==
    << "[Fail] Projection",
       "[Fail] SteeringMethod",
       "[Fail] Path validation returned length 0",
       "[Fail] Path could not be projected",
       "[Info] Path could not be fully projected",
       "[Info] Path could not be fully validated",
       "[Info] Extended partly" >>

\* SuccessStatistics (edge->name (), 2): no success, no failure yet.
SuccessStatistics(name) ==
    [name |-> name, nbSuccess |-> 0, nbFailure |-> [r \in 1 .. Len(reasons_) |-> 0]]

\* The planner's statistics: indexPerEdgeStatistics_ (entry id + 1 holds the
\* slot of edge id, -1 when it has none) and perEdgeStatistics_ (slot s is
\* entry s + 1).
NoStatistics == [index |-> <<>>, stats |-> <<>>]

\* A lookup that gives the edge a new slot every time.
edgeStatAlwaysNew(st, edge) ==
    [index |-> [k \in 1 .. (IF Len(st.index) <= edge.id THEN edge.id + 1
                             ELSE Len(st.index)) |->
                  IF k = edge.id + 1 THEN Len(st.stats)
                  ELSE IF k <= Len(st.index) THEN st.index[k] ELSE -1],
     stats |-> Append(st.stats, SuccessStatistics(edge.name))]

\* ManipulationPlanner::edgeStat: the statistics after the lookup, which
\* grows the index up to the edge's id and gives the edge a slot.
edgeStat(st, edge) ==
    LET grown ==
            IF Len(st.index) <= edge.id
            THEN st.index \o [k \in 1 .. (edge.id + 1 - Len(st.index)) |-> -1]
            ELSE st.index
    IN  IF grown[edge.id + 1] < 0
        THEN [index |-> [grown EXCEPT ![edge.id + 1] = Len(st.stats)],
              stats |-> Append(st.stats, SuccessStatistics(edge.name))]
        ELSE [index |-> grown, stats |-> st.stats]

\* es.addFailure (reasons_[reason]) on the slot of the edge.
addFailure(st, edge, reason) ==
    LET s == st.index[edge.id + 1] + 1 IN
    [st EXCEPT !.stats[s].nbFailure[reason + 1] = @ + 1]

\* es.addSuccess () on the slot of the edge.
addSuccess(st, edge) ==
    LET s == st.index[edge.id + 1] + 1 IN
    [st EXCEPT !.stats[s].nbSuccess = @ + 1]

\* Number of entries getEdgeStat pushes for an edge without statistics.
NbZeroEntries == 6
\* Number of failure reasons getEdgeStat and errorList report.
NbReportedReasons == 6

\* A getEdgeStat that leaves the successes out.
getEdgeStatFailuresOnly(st, edge) ==
    IF Len(st.index) <= edge.id \/ st.index[edge.id + 1] < 0
    THEN [i \in 1 .. NbZeroEntries |-> 0]
    ELSE LET ss == st.stats[st.index[edge.id + 1] + 1] IN
         [i \in 1 .. NbReportedReasons |-> ss.nbFailure[i]]

\* ManipulationPlanner::getEdgeStat.
getEdgeStat(st, edge) ==
    IF Len(st.index) <= edge.id \/ st.index[edge.id + 1] < 0
    THEN [i \in 1 .. NbZeroEntries |-> 0]
    ELSE LET ss == st.stats[st.index[edge.id + 1] + 1] IN
         <<ss.nbSuccess>> \o [i \in 1 .. NbReportedReasons |-> ss.nbFailure[i]]

\* ManipulationPlanner::errorList.
errorList == <<"Success">> \o [i \in 1 .. NbReportedReasons |-> reasons_[i]]

RECURSIVE SeqSum(_)
SeqSum(s) == IF s = <<>> THEN 0 ELSE Head(s) + SeqSum(Tail(s))

\* ------------------------------------------------------------- create
\* The messages of the std::invalid_argument create throws.
RoadmapMessage == "The roadmap must be of type hpp::manipulation::Roadmap."
ProblemMessage == "The problem must be of type hpp::manipulation::Problem."

\* ManipulationPlanner::create (problem, roadmap), given whether each
\* argument is the manipulation specialisation.  The roadmap pointer `r'
\* tested in the handler is the one declared before the try block, which the
\* declaration inside the block hides and nothing assigns.
create(problemIsManipulation, roadmapIsManipulation) ==
    LET outerR == FALSE                      \* RoadmapPtr_t r;  (null)
        castThrows == ~problemIsManipulation \* dynamic_cast to a reference
        innerR == roadmapIsManipulation      \* HPP_DYNAMIC_PTR_CAST: null or not
    IN  IF castThrows
        THEN IF ~outerR
             THEN [outcome |-> "invalid_argument", roadmap |-> FALSE,
                   what |-> RoadmapMessage]
             ELSE [outcome |-> "invalid_argument", roadmap |-> FALSE,
                   what |-> ProblemMessage]
        ELSE [outcome |-> "planner", roadmap |-> innerR, what |-> ""]

\* ------------------------------------------------------------- extend
NoEdge == [id |-> 0, name |-> "", from |-> "", to |-> ""]

\* graph->chooseEdge (n_near) picks among these, or picks none.
OutEdges(gn) == { e \in { GraphEdges[i] : i \in DOMAIN GraphEdges } : e.from = gn }

\* The cells of a constraint-graph node.
NodeCells(gn) == IF gn = "grasp" THEN GraspCells ELSE Cells \ GraspCells

\* edge->applyConstraints (n_near, qProj_) when it succeeds: q moved to the
\* nearest configuration of the edge's destination node.
applyConstraints(edge, q) ==
    LET lo == Pos(SetMin(NodeCells(edge.to)))
        hi == Pos(SetMax(NodeCells(edge.to)))
    IN  IF q < lo THEN lo ELSE IF q > hi THEN hi ELSE q

\* Interior times of a path at which it passes a cell centre.
InteriorStops(p) ==
    { t \in 1 .. (length(p) - 1) : eval(p, t) \in CoarseConfs }

\* Where a steering method that builds a PathVector puts its waypoint: the
\* first cell centre the straight path passes (none: the empty set).
Waypoints(p) == IF InteriorStops(p) = {} THEN {} ELSE {SetMin(InteriorStops(p))}

\* Where a path projector that gives up stops: the last cell centre the
\* path passes (none: the empty set).
ProjectorStops(p) == IF InteriorStops(p) = {} THEN {} ELSE {SetMax(InteriorStops(p))}

\* edge->build (path, q_near, qProj_) when it succeeds: a straight path, or
\* a PathVector through the waypoint at time way of the straight path.
build(q_near, q_proj, way) ==
    LET direct == Leaf(q_near, q_proj, 0) IN
    IF way = 0 THEN direct
    ELSE Vec(<<Leaf(q_near, eval(direct, way), 0),
               Leaf(eval(direct, way), q_proj, 0)>>)

\* What the environment decides in one call of extend:
\*   edge    the edge chooseEdge returns (NoEdge: none),
\*   proj    whether applyConstraints succeeds,
\*   steer   whether edge->build succeeds,
\*   way     the waypoint of the built path (0: a straight path),
\*   pp      what pathProjector->apply does: "full", "shorter" (stopping at
\*           time ppT) or "zero".
ExtendEnv(edge, proj, steer, way, pp, ppT) ==
    [edge |-> edge, proj |-> proj, steer |-> steer, way |-> way,
     pp |-> pp, ppT |-> ppT]

\* Length of the part of fullValidPath kept when the extension is cautious:
\* length * extendStep_.
extendLength(len, step) == (len * step.num) \div step.den

\* The branch of extend that decides between a success and a partial
\* extension: `!projShorter && fullValidPath', fullValidPath being the
\* pointer the validator set.
countsAsSuccess(projShorter, fullyValid, fullValidPath) ==
    ~projShorter /\ fullValidPath # NoPath

\* An extend that is cautious with fully valid paths too.
keepsWholeAtFullStepOnly(step, fullyValid) == step.num = step.den

\* Whether extend keeps the whole of fullValidPath:
\* `extendStep_ == 1 || fullyValid'.
keepsWholePath(step, fullyValid) == (step.num = step.den) \/ fullyValid

\* ManipulationPlanner::extend (n_near, q_rand, validPath), from the
\* statistics st, with a path projector or not, under env.  It leaves: the
\* returned boolean, validPath (NoPath when not assigned), the statistics.
ExtendResult(ret, validPath, st, aux) ==
    [ret |-> ret, validPath |-> validPath, st |-> st,
     projShorter |-> aux.projShorter, fullyValid |-> aux.fullyValid,
     fullValidPath |-> aux.fullValidPath, projPath |-> aux.projPath]
NoAux == [projShorter |-> FALSE, fullyValid |-> FALSE,
          fullValidPath |-> NoPath, projPath |-> NoPath]

\* An end of extend that records full successes only.
recordsSuccessOnly(es, edge, success) ==
    IF success THEN addSuccess(es, edge) ELSE es

\* The end of extend (lines 309-310): es.addSuccess () or es.addFailure
\* (reasons_[PARTLY_EXTENDED]).
recordsOutcome(es, edge, success) ==
    IF success THEN addSuccess(es, edge)
    ELSE addFailure(es, edge, PARTLY_EXTENDED)

\* extend from the validation on (lines 272-311): v is what validate left
\* for projPath, es1 the statistics so far.
extendValidated(w, es1, step, edge, projShorter, projPath, v) ==
    LET aux == [projShorter |-> projShorter, fullyValid |-> v.ok,
                fullValidPath |-> v.part, projPath |-> projPath]
        es2 == IF ~v.ok
               THEN addFailure(es1, edge, PATH_VALIDATION_SHORTER) ELSE es1
    IN  IF v.status = "throw"
        THEN ExtendResult(FALSE, NoPath,
                          addFailure(es1, edge, PATH_VALIDATION_ZERO),
                          [NoAux EXCEPT !.projShorter = projShorter,
                                        !.projPath = projPath])
        ELSE IF length(v.part) = 0
        THEN ExtendResult(FALSE, v.part,
                          addFailure(es1, edge, PATH_VALIDATION_ZERO), aux)
        ELSE IF ~keepsWholePath(step, v.ok) /\ w.throws
        THEN ExtendResult(FALSE, NoPath,
                          addFailure(es2, edge, PATH_PROJECTION_SHORTER), aux)
        ELSE ExtendResult(
                 TRUE,
                 IF keepsWholePath(step, v.ok) THEN v.part
                 ELSE extract(v.part, 0, extendLength(length(v.part), step)),
                 recordsOutcome(es2, edge,
                                countsAsSuccess(projShorter, v.ok, v.part)),
                 aux)

\* extend from the path projection on (lines 256-271): projShorter and
\* projPath are what pathProjector->apply left (projPath = path without a
\* projector).
extendProjected(w, es, step, edge, projShorter, projPath) ==
    IF projShorter /\ (projPath = NoPath \/ length(projPath) = 0)
    THEN ExtendResult(FALSE, NoPath,
                      addFailure(es, edge, PATH_PROJECTION_ZERO),
                      [NoAux EXCEPT !.projShorter = TRUE, !.projPath = projPath])
    ELSE extendValidated(
             w,
             IF projShorter
             THEN addFailure(es, edge, PATH_PROJECTION_SHORTER) ELSE es,
             step, edge, projShorter, projPath, validate(w, projPath, FALSE))

\* What pathProjector->apply (path, projPath) leaves in projPath.
projected(path, env) ==
    IF env.pp = "full" THEN path
    ELSE IF env.pp = "zero" THEN NoPath
    ELSE extract(path, 0, env.ppT)

\* extend giving up before a path exists: es.addFailure (reasons_[reason])
\* on the statistics of the edge, and return false.
abortsWith(st, edge, reason) ==
    ExtendResult(FALSE, NoPath, addFailure(edgeStat(st, edge), edge, reason),
                 NoAux)

\* A variant of the failure of applyConstraints that records the reason of
\* the steering method.
projectionFailsAsSteering(st, edge) == abortsWith(st, edge, STEERING_METHOD)

\* extend when edge->applyConstraints fails: es.addFailure
\* (reasons_[PROJECTION]) and return false.
projectionFails(st, edge) == abortsWith(st, edge, PROJECTION)

\* A variant of the failure of edge->build that records nothing.
steeringFailsSilently(st, edge) ==
    ExtendResult(FALSE, NoPath, edgeStat(st, edge), NoAux)

\* extend when edge->build fails: es.addFailure (reasons_[STEERING_METHOD])
\* and return false.
steeringFails(st, edge) == abortsWith(st, edge, STEERING_METHOD)

extend(w, st, hasProjector, step, q_near, q_rand, env) ==
    IF env.edge = NoEdge THEN ExtendResult(FALSE, NoPath, st, NoAux)
    ELSE IF ~env.proj THEN projectionFails(st, env.edge)
    ELSE IF ~env.steer THEN steeringFails(st, env.edge)
    ELSE IF hasProjector
    THEN extendProjected(
             w, edgeStat(st, env.edge), step, env.edge, env.pp # "full",
             projected(build(q_near, applyConstraints(env.edge, q_rand), env.way),
                       env))
    ELSE extendProjected(
             w, edgeStat(st, env.edge), step, env.edge, FALSE,
             build(q_near, applyConstraints(env.edge, q_rand), env.way))

\* The environments of one call of extend from a node of graph node gn,
\* one per distinguishable course of the call.
ExtendEnvs(hasProjector, gn, q_near, q_rand) ==
    { ExtendEnv(NoEdge, FALSE, FALSE, 0, "full", 0) }
    \cup UNION { 
        { ExtendEnv(e, FALSE, FALSE, 0, "full", 0),
          ExtendEnv(e, TRUE, FALSE, 0, "full", 0) }
        \cup UNION {
            { ExtendEnv(e, TRUE, TRUE, way, "full", 0) }
            \cup ( IF hasProjector
                   THEN { ExtendEnv(e, TRUE, TRUE, way, "zero", 0) }
                        \cup { ExtendEnv(e, TRUE, TRUE, way, "shorter", t) :
                                 t \in ProjectorStops(
                                     Leaf(q_near, applyConstraints(e, q_rand), 0)) }
                   ELSE {} )
            : way \in {0} \cup Waypoints(
                                   Leaf(q_near, applyConstraints(e, q_rand), 0)) }
        : e \in OutEdges(gn) }

\* ------------------------------------------------------------- roadmap
\* The roadmap: nodes in insertion order (a node is its index), directed
\* edges, and the ids of the connected components (a component is named by
\* the node that started it).
RoadmapNode(q, cc, gn) == [q |-> q, cc |-> cc, gn |-> gn]
RoadmapEdge(from, to, path) == [from |-> from, to |-> to, path |-> path]
EmptyRoadmap == [nodes |-> <<>>, edges |-> <<>>, ccs |-> {}]

\* The constraint-graph node a roadmap node is filed under.
graphNodeOf(w, q) == CHOOSE gn \in getNode(w, q) : TRUE

\* roadmap->addNode (q): an isolated node, in a component of its own.
addNode(w, rm, q) ==
    LET n == Len(rm.nodes) + 1 IN
    [rm EXCEPT !.nodes = Append(@, RoadmapNode(q, n, graphNodeOf(w, q))),
               !.ccs = @ \cup {n}]

\* roadmap->addEdge (a, b, path): one directed edge; the component of b is
\* merged into that of a when they differ.
addEdge(rm, a, b, path) ==
    LET ca == rm.nodes[a].cc
        cb == rm.nodes[b].cc
    IN  [nodes |-> [n \in DOMAIN rm.nodes |->
                      IF rm.nodes[n].cc = cb
                      THEN [rm.nodes[n] EXCEPT !.cc = ca] ELSE rm.nodes[n]],
         edges |-> Append(rm.edges, RoadmapEdge(a, b, path)),
         ccs |-> IF ca = cb THEN rm.ccs ELSE rm.ccs \ {cb}]

\* An edge back that carries the path the way it came.
sameWayBack(path) == path

\* The edge back: path->extract (interval_t (timeRange.second,
\* timeRange.first)).
reverseOf(path) == extract(path, length(path), 0)

\* roadmap->addNodeAndEdges (from, q, path): a node for q in the component
\* of from, the edge from -> new carrying path and the edge back.
addNodeAndEdges(w, rm, from, q, path) ==
    LET n == Len(rm.nodes) + 1
        withNode == [rm EXCEPT !.nodes =
                        Append(@, RoadmapNode(q, rm.nodes[from].cc,
                                              graphNodeOf(w, q)))]
    IN  addEdge(addEdge(withNode, from, n, path), n, from, reverseOf(path))

\* The nodes of component cc in the order of their distance to q, nearest
\* first, first inserted first among equals.
RECURSIVE byDistance(_, _, _)
byDistance(rm, q, S) ==
    IF S = {} THEN <<>>
    ELSE LET best == CHOOSE n \in S : \A m \in S :
                         \/ Abs(rm.nodes[n].q - q) < Abs(rm.nodes[m].q - q)
                         \/ /\ Abs(rm.nodes[n].q - q) = Abs(rm.nodes[m].q - q)
                            /\ n <= m
         IN  <<best>> \o byDistance(rm, q, S \ {best})

\* roadmap_->nearestNode (q, cc, gn, distance): the nearest node of
\* component cc filed under graph node gn; 0 when there is none.
nearestNode(rm, q, cc, gn) ==
    LET S == { n \in DOMAIN rm.nodes : rm.nodes[n].cc = cc /\ rm.nodes[n].gn = gn }
    IN  IF S = {} THEN 0 ELSE Head(byDistance(rm, q, S))

\* A search that looks in every connected component.
nearestInAnyComponent(rm, q, cc, gn) ==
    LET S == { n \in DOMAIN rm.nodes : rm.nodes[n].gn = gn }
    IN  IF S = {} THEN 0 ELSE Head(byDistance(rm, q, S))

\* The search of the extension loop: roadmap_->nearestNode (q_rand, *itcc,
\* *itNode, distance), restricted to the component and graph node served.
nearInLoop(rm, q, cc, gn) == nearestNode(rm, q, cc, gn)

\* K of tryConnectToRoadmap.
K == 7

\* roadmap->nearestNeighbor ()->KnearestSearch (q, cc, K, distance).
KnearestSearch(rm, q, cc, k) ==
    LET all == byDistance(rm, q, { n \in DOMAIN rm.nodes : rm.nodes[n].cc = cc })
    IN  SubSeq(all, 1, IF Len(all) < k THEN Len(all) ELSE k)

isOutNeighbor(rm, n1, n2) ==
    \E i \in DOMAIN rm.edges : rm.edges[i].from = n1 /\ rm.edges[i].to = n2
isInNeighbor(rm, n1, n2) == isOutNeighbor(rm, n2, n1)

\* A membership test that finds nothing.
belongsNever(rm, q, nodes) == FALSE

\* belongs (q, nodes).
belongs(rm, q, nodes) == \E i \in DOMAIN nodes : rm.nodes[nodes[i]].q = q

\* The sequence of the elements of a set of integers, ascending.
RECURSIVE Ascending(_)
Ascending(S) ==
    IF S = {} THEN <<>> ELSE <<SetMin(S)>> \o Ascending(S \ {SetMin(S)})

RECURSIVE Flatten(_)
Flatten(ss) == IF ss = <<>> THEN <<>> ELSE Head(ss) \o Flatten(Tail(ss))

\* ------------------------------------------------- connection phases
\* What a connection phase leaves: the roadmap, the number of connections,
\* and how it ended: "ret", "throw" (core::projection_error left validate)
\* or "assert" (assert (*q1 != *q2) failed).
ConnectState(rm, nb, status) == [rm |-> rm, nbConnection |-> nb, status |-> status]

\* A variant without the tests of _1to2 and _2to1: both edges, always.
addBothEdges(rm, n1, n2, projPath, oneToTwo, twoToOne) ==
    addEdge(addEdge(rm, n1, n2, projPath), n2, n1, reverseOf(projPath))

\* The edges a connection adds: n1 -> n2 carrying projPath unless n2 is
\* already an out-neighbour of n1 (_1to2), n2 -> n1 carrying the reversed
\* path unless it is already an in-neighbour (_2to1).
addMissingEdges(rm, n1, n2, projPath, oneToTwo, twoToOne) ==
    LET rm1 == IF ~oneToTwo THEN addEdge(rm, n1, n2, projPath) ELSE rm IN
    IF ~twoToOne THEN addEdge(rm1, n2, n1, reverseOf(projPath)) ELSE rm1

\* The body both connection loops run on a pair (n1, n2) once the pair is
\* known not to be connected both ways; steered tells whether the steering
\* method and the projector produced projPath.
connectPair(w, acc, n1, n2, steered) ==
    LET rm == acc.rm
        q1 == rm.nodes[n1].q
        q2 == rm.nodes[n2].q
        projPath == Leaf(q1, q2, 0)
        v == validate(w, projPath, FALSE)
        rm2 == addMissingEdges(rm, n1, n2, projPath,
                               isOutNeighbor(rm, n1, n2), isInNeighbor(rm, n1, n2))
    IN  IF q1 = q2 THEN [acc EXCEPT !.status = "assert"]
        ELSE IF ~steered THEN acc
        ELSE IF v.status = "throw" THEN [acc EXCEPT !.status = "throw"]
        ELSE IF v.ok
        THEN ConnectState(rm2, acc.nbConnection + 1, "ret")
        ELSE acc

\* Pairs (i, j), i < j, of positions of a sequence, in loop order.
OrderedPairs(n) ==
    Flatten([i \in 1 .. n |-> [d \in 1 .. (n - i) |-> <<i, i + d>>]])

\* ManipulationPlanner::tryConnectNewNodes (nodes); steerable holds the
\* pairs of nodes between which steering and projection succeed.
RECURSIVE connectNewFrom(_, _, _, _, _)
connectNewFrom(w, acc, nodes, pairs, steerable) ==
    IF pairs = <<>> \/ acc.status # "ret" THEN acc
    ELSE LET n1 == nodes[Head(pairs)[1]]
             n2 == nodes[Head(pairs)[2]]
             rm == acc.rm
             skip == \/ rm.nodes[n1].cc = rm.nodes[n2].cc
                     \/ isOutNeighbor(rm, n1, n2) /\ isInNeighbor(rm, n1, n2)
             next == IF skip THEN acc
                     ELSE connectPair(w, acc, n1, n2, <<n1, n2>> \in steerable)
         IN  connectNewFrom(w, next, nodes, Tail(pairs), steerable)

tryConnectNewNodes(w, rm, nodes, steerable) ==
    connectNewFrom(w, ConnectState(rm, 0, "ret"), nodes,
                   OrderedPairs(Len(nodes)), steerable)

\* The inner loops of tryConnectToRoadmap for one node n1: the K nearest
\* nodes of every other component, until the first connection.  Steering or
\* projection fails for the candidates up to position unsteered.  (The
\* one-element sets here and in connectRoadmapFrom name the state a pair
\* leaves, so that it is computed once.)
RECURSIVE connectToFirst(_, _, _, _, _, _)
connectToFirst(w, acc, n1, candidates, pos, unsteered) ==
    IF pos > Len(candidates) \/ acc.status # "ret" THEN acc
    ELSE LET n2 == candidates[pos]
             rm == acc.rm
             skip == isOutNeighbor(rm, n1, n2) /\ isInNeighbor(rm, n1, n2)
             next == IF skip THEN acc
                     ELSE connectPair(w, acc, n1, n2, pos > unsteered)
         IN  CHOOSE after \in
                 { IF done.nbConnection > acc.nbConnection THEN done
                   ELSE connectToFirst(w, done, n1, candidates, pos + 1, unsteered) :
                     done \in {next} } : TRUE

\* The nodes tryConnectToRoadmap tries for n1, in loop order.
candidatesOf(rm, n1) ==
    LET others == Ascending(rm.ccs \ {rm.nodes[n1].cc}) IN
    Flatten([i \in DOMAIN others |->
                KnearestSearch(rm, rm.nodes[n1].q, others[i], K)])

\* ManipulationPlanner::tryConnectToRoadmap (nodes); unsteered[i] is the
\* number of leading candidates of nodes[i] that cannot be steered to.
RECURSIVE connectRoadmapFrom(_, _, _, _, _)
connectRoadmapFrom(w, acc, nodes, i, unsteered) ==
    IF i > Len(nodes) \/ acc.status # "ret" THEN acc
    ELSE CHOOSE after \in
             { connectRoadmapFrom(w, next, nodes, i + 1, unsteered) :
                 next \in { connectToFirst(w, acc, nodes[i], candidates, 1,
                                           unsteered[i]) :
                              candidates \in {candidatesOf(acc.rm, nodes[i])} } } :
             TRUE

tryConnectToRoadmap(w, rm, nodes, unsteered) ==
    connectRoadmapFrom(w, ConnectState(rm, 0, "ret"), nodes, 1, unsteered)

\* ------------------------------------------------------------------ state
VARIABLES
    world,          \* the external capabilities' answers (see World)
    endless,        \* whether oneStep is called again and again until a
                    \* node lies in grasp (otherwise: MaxExtends extensions)
    val,            \* a validation call: its inputs and what it left
    planner,        \* what ManipulationPlanner::create left
    createArgs,     \* whether create's problem and roadmap were manipulation ones
    problem,        \* problem_: whether it has a path projector
    extendStep_,    \* the cautious-extension fraction, num / den
    roadmap,        \* roadmap_: nodes, edges, connected components
    statistics,     \* indexPerEdgeStatistics_ and perEdgeStatistics_
    pc,             \* where oneStep stands
    steps,          \* number of oneStep calls started
    q_rand,         \* the configuration shot in this step
    pending,        \* (component, graph node) pairs still to extend
    newNodes,       \* oneStep's newNodes
    delayedEdges,   \* oneStep's delayedEdges
    nbConn,         \* what tryConnectNewNodes returned in this step
    stepStartNodes, \* number of roadmap nodes when the step started
    born,           \* per roadmap node: the component whose extension made it
    attempts,       \* per edge id: calls of extend in which it was chosen
    calls,          \* number of calls of extend (in an endless run: up to
                    \* MaxExtends)
    history,        \* what the environment answered so far (see NoHistory)
    last            \* the last iteration of the extension loop

vars == <<world, endless, val, planner, createArgs, problem, extendStep_, roadmap, statistics,
          pc, steps, q_rand, pending, newNodes, delayedEdges, nbConn,
          stepStartNodes, born, attempts, calls, history, last>>
plannerVars == <<planner, createArgs, problem, extendStep_, roadmap, statistics,
                 pc, steps, q_rand, pending, newNodes, delayedEdges, nbConn,
                 stepStartNodes, born, attempts, calls, history, last>>
stepVars == <<pc, steps, q_rand, pending, newNodes, delayedEdges, nbConn,
              stepStartNodes>>

NoResult == [status |-> "none", ok |-> FALSE, part |-> NoPath, nested |-> 0]
ValIdle == [path |-> NoPath, reverse |-> FALSE, res |-> NoResult, res2 |-> NoResult]

NoPlanner == [outcome |-> "none", roadmap |-> FALSE, what |-> ""]
ZeroStat == SuccessStatistics("")
\* What an iteration of the extension loop did: the pair it served, the node
\* nearestNode returned (0: none), and, when extend was called, the edge
\* chosen (0: none), whether applyConstraints and edge->build succeeded,
\* what extend returned and what it added to the edge's statistics.
NoLast ==
    [cc |-> 0, gn |-> "", near |-> 0, called |-> FALSE, edge |-> 0,
     proj |-> FALSE, steer |-> FALSE,
     ret |-> FALSE, validPath |-> NoPath, projShorter |-> FALSE,
     fullyValid |-> FALSE, fullValidPath |-> NoPath, projPath |-> NoPath,
     inserted |-> 0,
     added |-> [nbSuccess |-> 0, nbFailure |-> ZeroStat.nbFailure]]

\* What the environment answered since create: the edges for which
\* applyConstraints succeeded at least once (projected), those for which it
\* failed at least once (unprojected), those for which
\* edge->build succeeded at least once (steered), per edge the number of
\* paths oneStep inserted after an extension along it (inserts), and whether
\* every answer so far was a full success (smooth): an edge chosen,
\* projection, steering and path projection successful in extend, every
\* pair steered in the connection phases.  Of the running or last oneStep:
\* the number of (component, graph node) pairs its extension loop serves
\* (pairs), the phases it ran, in order (phases), the number of roadmap
\* edges when it began (edges0) and, for each call of extend that returned
\* true with a path of non-zero length, the node extended and the path
\* (grown).  And the number of connections the connection phases made since
\* create (connections), and per edge the number of calls of extend that
\* chose it and returned true (returnedTrue).
NoHistory ==
    [projected |-> {}, unprojected |-> {}, steered |-> {},
     inserts |-> [id \in EdgeIds |-> 0], smooth |-> TRUE,
     pairs |-> 0, phases |-> <<>>, connections |-> 0,
     edges0 |-> 0, grown |-> <<>>,
     returnedTrue |-> [id \in EdgeIds |-> 0]]

\* The planner before create: nothing built, no step running.
PlannerIdle ==
    /\ planner = NoPlanner
    /\ createArgs = [problem |-> FALSE, roadmap |-> FALSE]
    /\ problem = [pathProjector |-> FALSE]
    /\ extendStep_ = [num |-> 1, den |-> 1]
    /\ roadmap = EmptyRoadmap
    /\ statistics = NoStatistics
    /\ pc = "idle"
    /\ steps = 0
    /\ q_rand = 0
    /\ pending = <<>>
    /\ newNodes = <<>>
    /\ delayedEdges = <<>>
    /\ nbConn = 0
    /\ stepStartNodes = 0
    /\ born = <<>>
    /\ attempts = [id \in EdgeIds |-> 0]
    /\ calls = 0
    /\ history = NoHistory
    /\ last = NoLast

\* ------------------------------------------- validation on its own
\* Longest PathVector handed to validate.
MaxSubs == 3

\* Continuous chains of straight sub-paths between cell centres.
Chains == UNION { [1 .. n -> Cells] : n \in 2 .. (MaxSubs + 1) }
LeavesOf(ch) == [i \in 1 .. (Len(ch) - 1) |-> Leaf(Pos(ch[i]), Pos(ch[i + 1]), 0)]
ValPaths ==
    { Leaf(Pos(ch[1]), Pos(ch[2]), 0) : ch \in [1 .. 2 -> Cells] }
    \cup { Vec(LeavesOf(ch)) : ch \in Chains }
    \cup { Vec(<<Head(LeavesOf(ch)), Vec(Tail(LeavesOf(ch)))>>) :
              ch \in { c \in Chains : Len(c) >= 3 } }

ValWorlds ==
    { World(obst, nonode, onLeaf, throws) :
        obst \in { {}, {MaxCell - 1}, {MaxCell} },
        nonode \in { {}, {1} },
        onLeaf \in { {}, EdgeIds },
        throws \in BOOLEAN }

InitValidate ==
    /\ world \in ValWorlds
    /\ endless = FALSE
    /\ \E p \in ValPaths, r \in BOOLEAN :
           val = [ValIdle EXCEPT !.path = p, !.reverse = r]
    /\ PlannerIdle

\* validate (path, reverse, validPart).
Validate ==
    /\ val.res.status = "none"
    /\ \E r \in { validate(world, val.path, val.reverse) } :
          val' = [val EXCEPT !.res = r]
    /\ UNCHANGED <<world, endless, plannerVars>>

\* validate (validPart, reverse, validPart2) on what the first call left.
Revalidate ==
    /\ val.res.status = "ret"
    /\ val.res2.status = "none"
    /\ \E r \in { validate(world, val.res.part, val.reverse) } :
          val' = [val EXCEPT !.res2 = r]
    /\ UNCHANGED <<world, endless, plannerVars>>

NextValidate == Validate \/ Revalidate
SpecValidate == InitValidate /\ [][NextValidate]_vars
\* A call of validate that was made runs.
SpecValidateFair == SpecValidate /\ WF_vars(Validate)

\* ------------------------------------------------------------ the planner
\* Worlds the planner runs in: every configuration lies in a graph node.
PlannerWorlds ==
    { World({}, {}, EdgeIds, FALSE),
      World({MaxCell}, {}, EdgeIds, FALSE),
      World({MaxCell - 1}, {}, EdgeIds, FALSE),
      World({MaxCell - 1}, {}, EdgeIds, TRUE),
      World({MaxCell - 1}, {}, {}, TRUE) }

\* Roadmaps handed to create: the initial configuration alone, or with a
\* goal configuration in a component of its own.
InitialRoadmaps(w) ==
    { addNode(w, EmptyRoadmap, Pos(0)),
      addNode(w, addNode(w, EmptyRoadmap, Pos(0)), Pos(1)) }

\* Configurations the shooter returns: two cell centres and a
\* configuration between the first two.
Shots == { Pos(1), Pos(MaxCell), Pos(0) + Scale \div 2 }

\* The configurations shot in a regime: an endless run shoots cell centres.
ShotsIn(regime) == IF regime THEN Shots \cap CoarseConfs ELSE Shots

Init ==
    /\ world \in PlannerWorlds
    /\ endless = FALSE
    /\ val = ValIdle
    /\ PlannerIdle

\* ManipulationPlanner::create (problem, roadmap) and the constructor.
Create ==
    /\ planner.outcome = "none"
    /\ \E pm \in BOOLEAN, rmm \in BOOLEAN, pp \in BOOLEAN :
          /\ planner' = create(pm, rmm)
          /\ createArgs' = [problem |-> pm, roadmap |-> rmm]
          /\ problem' = [pathProjector |-> pp /\ planner'.outcome = "planner"]
          /\ IF planner'.outcome = "planner" /\ planner'.roadmap
             THEN \E rm \in InitialRoadmaps(world) :
                     /\ endless => Len(rm.nodes) = 1
                     /\ roadmap' = rm
                     /\ born' = [n \in DOMAIN rm.nodes |-> 0]
             ELSE UNCHANGED <<roadmap, born>>
    /\ extendStep_' = [num |-> 1, den |-> 1]
    /\ UNCHANGED <<world, endless, val, statistics, stepVars, attempts, calls, history, last>>

\* The setter of extendStep_, used before the first step.
SetExtendStep ==
    /\ planner.outcome = "planner"
    /\ pc = "idle" /\ steps = 0
    /\ extendStep_ = [num |-> 1, den |-> 1]
    /\ extendStep_' = [num |-> 1, den |-> 2]
    /\ UNCHANGED <<world, endless, val, planner, createArgs, problem, roadmap, statistics, stepVars,
                   born, attempts, calls, history, last>>

\* oneStep on a planner that create built around a null roadmap pointer:
\* roadmap ()->connectedComponents () dereferences it.
OneStepNullRoadmap ==
    /\ planner.outcome = "planner" /\ ~planner.roadmap
    /\ pc = "idle"
    /\ pc' = "crashed"
    /\ UNCHANGED <<world, endless, val, planner, createArgs, problem, extendStep_, roadmap, statistics,
                   steps, q_rand, pending, newNodes, delayedEdges, nbConn,
                   stepStartNodes, born, attempts, calls, history, last>>

\* The (component, graph node) pairs of the extension loop, in loop order.
LoopPairs(rm) ==
    LET cs == Ascending(rm.ccs) IN
    Flatten([i \in DOMAIN cs |->
                [j \in DOMAIN GraphNodes |-> <<cs[i], GraphNodes[j]>>]])

\* Whether a roadmap node lies in the graph node grasp.
HasGraspNode == \E n \in DOMAIN roadmap.nodes : roadmap.nodes[n].gn = "grasp"

\* oneStep, up to the extension loop: shoot q_rand.  Steps are counted as
\* long as extensions are; an endless run goes on until a node lies in
\* grasp.
StartStep ==
    /\ planner.outcome = "planner" /\ planner.roadmap
    /\ pc = "idle"
    /\ calls < MaxExtends \/ (endless /\ ~HasGraspNode)
    /\ steps' = IF calls < MaxExtends THEN steps + 1 ELSE steps
    /\ q_rand' \in ShotsIn(endless)
    /\ pending' = LoopPairs(roadmap)
    /\ newNodes' = <<>>
    /\ delayedEdges' = <<>>
    /\ nbConn' = 0
    /\ stepStartNodes' = Len(roadmap.nodes)
    /\ pc' = "extend"
    /\ last' = NoLast
    /\ history' = [history EXCEPT !.pairs = Len(LoopPairs(roadmap)),
                                   !.phases = <<>>,
                                   !.edges0 = Len(roadmap.edges),
                                   !.grown = <<>>]
    /\ UNCHANGED <<world, endless, val, planner, createArgs, problem, extendStep_, roadmap, statistics,
                   born, attempts, calls>>

\* The statistics of an edge id, zero when it has no slot.
StatOf(st, id) ==
    IF Len(st.index) <= id \/ st.index[id + 1] < 0 THEN ZeroStat
    ELSE st.stats[st.index[id + 1] + 1]

\* What a call of extend added to the statistics of edge id.
AddedTo(before, after, id) ==
    [nbSuccess |-> StatOf(after, id).nbSuccess - StatOf(before, id).nbSuccess,
     nbFailure |-> [r \in 1 .. Len(reasons_) |->
                      StatOf(after, id).nbFailure[r] - StatOf(before, id).nbFailure[r]]]

\* The environment where chooseEdge returns the edge grasp and
\* applyConstraints, edge->build and pathProjector->apply succeed.
GraspEnv == ExtendEnv(EdgeOfId(2), TRUE, TRUE, 0, "full", 0)

\* Calls of extend that may choose the edge grasp in an endless run.
MaxGraspCalls == MaxExtends + 1

\* The environments of the next call of extend: any of them during the
\* first MaxExtends calls, and afterwards the one where chooseEdge finds no
\* edge, so that the running step ends without further growth; an endless
\* run keeps the environment where the edge grasp succeeds, for
\* MaxGraspCalls choices of that edge in all.
BudgetedEnvs(gn, q_near) ==
    IF calls < MaxExtends
    THEN ExtendEnvs(problem.pathProjector, gn, q_near, q_rand)
    ELSE { ExtendEnv(NoEdge, FALSE, FALSE, 0, "full", 0) }
         \cup { e \in {GraspEnv} : /\ endless
                                   /\ e.edge.from = gn
                                   /\ attempts[e.edge.id] < MaxGraspCalls }

\* Whether a call of extend under env met no failure of its environment.
smoothEnv(env) ==
    env.edge # NoEdge /\ env.proj /\ env.steer /\ env.pp = "full"

\* The history after a phase of oneStep that made nb connections.
afterPhase(h, phase, nb) ==
    [h EXCEPT !.phases = Append(@, phase), !.connections = @ + nb]

\* The history after a call of extend under env whose path oneStep inserted
\* or not.
afterCall(h, env, inserted) ==
    IF env.edge = NoEdge THEN [h EXCEPT !.smooth = FALSE]
    ELSE [h EXCEPT
            !.projected = IF env.proj THEN @ \cup {env.edge.id} ELSE @,
            !.unprojected = IF env.proj THEN @ ELSE @ \cup {env.edge.id},
            !.steered = IF env.proj /\ env.steer THEN @ \cup {env.edge.id} ELSE @,
            !.inserts[env.edge.id] = IF inserted THEN @ + 1 ELSE @,
            !.smooth = @ /\ smoothEnv(env)]

\* The history after a call of extend from node near under env that left r.
afterReturn(h, near, env, r) ==
    [h EXCEPT
        !.grown = IF r.ret /\ length(r.validPath) # 0
                  THEN Append(@, [near |-> near, path |-> r.validPath])
                  ELSE @,
        !.returnedTrue = IF r.ret /\ env.edge # NoEdge
                         THEN [@ EXCEPT ![env.edge.id] = @ + 1]
                         ELSE @]

\* The insertion of the new path (lines 162-174) after a call of extend
\* that left r: direct when q_new is not among newNodes, delayed otherwise.
insertNewPath(cc, gn, near, env, r, q_new, direct, delayed) ==
    /\ statistics' = r.st
    /\ calls' = IF endless /\ calls >= MaxExtends THEN calls ELSE calls + 1
    /\ attempts' =
          IF env.edge = NoEdge THEN attempts
          ELSE [attempts EXCEPT ![env.edge.id] = @ + 1]
    /\ roadmap' =
          IF direct
          THEN addNodeAndEdges(world, roadmap, near, q_new, r.validPath)
          ELSE roadmap
    /\ newNodes' =
          IF direct THEN Append(newNodes, Len(roadmap.nodes) + 1)
          ELSE newNodes
    /\ born' = IF direct THEN Append(born, cc) ELSE born
    /\ history' = afterPhase(
                      afterCall(afterReturn(history, near, env, r), env,
                                direct \/ delayed),
                      "extend", 0)
    /\ delayedEdges' =
          IF delayed
          THEN Append(delayedEdges,
                      [near |-> near, q_new |-> q_new,
                       validPath |-> r.validPath])
          ELSE delayedEdges
    /\ last' =
          [cc |-> cc, gn |-> gn, near |-> near, called |-> TRUE,
           edge |-> env.edge.id, proj |-> env.proj, steer |-> env.steer,
           ret |-> r.ret,
           validPath |-> r.validPath,
           projShorter |-> r.projShorter,
           fullyValid |-> r.fullyValid,
           fullValidPath |-> r.fullValidPath,
           projPath |-> r.projPath,
           inserted |-> IF direct THEN Len(roadmap.nodes) + 1 ELSE 0,
           added |-> AddedTo(statistics, r.st, env.edge.id)]

\* A test that takes a path of non-zero length for an empty one.
insertsEmptyPath(r) == r.ret /\ length(r.validPath) = 0

\* Whether oneStep inserts the path extend left: pathIsValid and a path of
\* non-zero length (lines 162-164).
insertsPath(r) == r.ret /\ length(r.validPath) # 0

\* The body of the extension loop once extend has left r (lines 162-174).
afterExtend(cc, gn, near, env, r) ==
    insertNewPath(cc, gn, near, env, r, PathEnd(r.validPath),
                  insertsPath(r) /\ ~belongs(roadmap, PathEnd(r.validPath), newNodes),
                  insertsPath(r) /\ belongs(roadmap, PathEnd(r.validPath), newNodes))

\* The body of the extension loop for the pair (cc, gn), near being the
\* node nearestNode returned (lines 152-174).
extendPair(cc, gn, near) ==
    IF near = 0
    THEN /\ last' = [NoLast EXCEPT !.cc = cc, !.gn = gn]
         /\ history' = afterPhase(history, "extend", 0)
         /\ UNCHANGED <<roadmap, statistics, newNodes, delayedEdges,
                        born, attempts, calls>>
    ELSE \E env \in BudgetedEnvs(gn, roadmap.nodes[near].q) :
            afterExtend(cc, gn, near, env,
                        extend(world, statistics, problem.pathProjector,
                               extendStep_, roadmap.nodes[near].q, q_rand, env))

\* One iteration of the extension loop: nearestNode, extend, and the
\* insertion of the new path, direct or delayed.
ExtendIteration ==
    /\ pc = "extend" /\ pending # <<>>
    /\ pending' = Tail(pending)
    /\ extendPair(Head(pending)[1], Head(pending)[2],
                  nearInLoop(roadmap, q_rand, Head(pending)[1], Head(pending)[2]))
    /\ UNCHANGED <<world, endless, val, planner, createArgs, problem, extendStep_, pc, steps, q_rand,
                   nbConn, stepStartNodes>>

\* A loop that drops the delayed edges.
dropDelayed(w, rm, delayed) == rm

\* The loop over delayedEdges: a new node and both edges for each.
RECURSIVE insertDelayed(_, _, _)
insertDelayed(w, rm, delayed) ==
    IF delayed = <<>> THEN rm
    ELSE LET d == Head(delayed)
             n == Len(rm.nodes) + 1
             rm1 == addNode(w, rm, d.q_new)
             rm2 == addEdge(rm1, d.near, n, d.validPath)
             rm3 == addEdge(rm2, n, d.near, reverseOf(d.validPath))
         IN  insertDelayed(w, rm3, Tail(delayed))

DrainDelayed ==
    /\ pc = "extend" /\ pending = <<>>
    /\ roadmap' = insertDelayed(world, roadmap, delayedEdges)
    /\ born' = born \o [i \in DOMAIN delayedEdges |->
                          roadmap.nodes[delayedEdges[i].near].cc]
    /\ pc' = "connectNew"
    /\ history' = afterPhase(history, "delayed", 0)
    /\ UNCHANGED <<world, endless, val, planner, createArgs, problem, extendStep_, statistics, steps,
                   q_rand, pending, newNodes, delayedEdges, nbConn,
                   stepStartNodes, attempts, calls, last>>

\* Where oneStep stands after a connection phase that ended with status.
AfterConnect(status, nextPc) ==
    IF status = "ret" THEN nextPc
    ELSE IF status = "throw" THEN "threw" ELSE "assertFailed"

\* Pairs of new nodes that lie in different components.
CrossPairs ==
    { <<newNodes[i], newNodes[j]>> : i \in DOMAIN newNodes, j \in DOMAIN newNodes }
    \cap { pr \in (DOMAIN roadmap.nodes) \X (DOMAIN roadmap.nodes) :
             roadmap.nodes[pr[1]].cc # roadmap.nodes[pr[2]].cc }

\* A test that sends every step to the fallback.
alwaysFallsBack(nb) == TRUE

\* Whether oneStep calls tryConnectToRoadmap: if (nbConn == 0).
callsFallback(nb) == nb = 0

\* tryConnectNewNodes (newNodes), and the test of its result.
TryConnectNewNodes ==
    /\ pc = "connectNew"
    /\ \E steerable \in SUBSET CrossPairs :
          \E r \in { tryConnectNewNodes(world, roadmap, newNodes, steerable) } :
          /\ roadmap' = r.rm
          /\ nbConn' = r.nbConnection
          /\ pc' = AfterConnect(r.status,
                                IF callsFallback(r.nbConnection)
                                THEN "connectRoadmap" ELSE "idle")
          /\ history' = afterPhase(
                            [history EXCEPT !.smooth = @ /\ steerable = CrossPairs],
                            "connectNew", r.nbConnection)
    /\ UNCHANGED <<world, endless, val, planner, createArgs, problem, extendStep_, statistics, steps,
                   q_rand, pending, newNodes, delayedEdges, stepStartNodes,
                   born, attempts, calls, last>>

\* tryConnectToRoadmap (newNodes), the fallback.
TryConnectToRoadmap ==
    /\ pc = "connectRoadmap"
    /\ \E unsteered \in
              { f \in [DOMAIN newNodes -> 0 .. Len(roadmap.nodes)] :
                  \A i \in DOMAIN newNodes :
                      f[i] <= Len(candidatesOf(roadmap, newNodes[i])) } :
          \E r \in { tryConnectToRoadmap(world, roadmap, newNodes, unsteered) } :
          /\ roadmap' = r.rm
          /\ pc' = AfterConnect(r.status, "idle")
          /\ history' = afterPhase(
                            [history EXCEPT
                                !.smooth = @ /\ \A i \in DOMAIN newNodes :
                                                    unsteered[i] = 0],
                            "connectRoadmap", r.nbConnection)
    /\ UNCHANGED <<world, endless, val, planner, createArgs, problem, extendStep_, statistics, steps,
                   q_rand, pending, newNodes, delayedEdges, nbConn,
                   stepStartNodes, born, attempts, calls, last>>

Next ==
    \/ Create
    \/ SetExtendStep
    \/ OneStepNullRoadmap
    \/ StartStep
    \/ ExtendIteration
    \/ DrainDelayed
    \/ TryConnectNewNodes
    \/ TryConnectToRoadmap

Spec == Init /\ [][Next]_vars

\* Rank of the first sub-path of a PathVector that does not validate.
FirstInvalid(w, path) ==
    SetMin({ j \in 1 .. Len(path.subs) : ~validate(w, path.subs[j], FALSE).ok })

\* C1: forward validation of a PathVector whose first invalid sub-path is at
\* rank i returns false with validPart = the sub-paths before rank i, in
\* order, followed by the valid prefix of sub-path i.
C1_ValidPartIsPredecessorsThenPrefix ==
    (val.res.status = "ret" /\ ~val.reverse /\ val.path.kind = "vec" /\ ~val.res.ok)
    => LET i == FirstInvalid(world, val.path) IN
       val.res.part =
           Vec(SubSeq(val.path.subs, 1, i - 1)
               \o <<validate(world, val.path.subs[i], FALSE).part>>)

\* C2: valid parts are fixed points of validation: validating the validPart
\* of a forward validation sets a validPart equal to it.
C2_ValidPartsAreFixedPoints ==
    (val.res2.status # "none" /\ ~val.reverse)
    => (val.res2.status = "ret" /\ val.res2.part = val.res.part)

\* ------------------------------------------------ statistics of the edges
\* Sum of the entries getEdgeStat returns for the edge of identifier id.
EdgeStatSum(id) == SeqSum(getEdgeStat(statistics, EdgeOfId(id)))

\* C3, as stated: for every edge extend has selected at least once, the sum
\* of the entries of getEdgeStat equals the number of calls of extend in
\* which chooseEdge returned the edge.
C3_SumEqualsAttempts ==
    \A id \in EdgeIds : attempts[id] > 0 => EdgeStatSum(id) = attempts[id]

\* C3, amended: a call of extend that selected an edge leaves at least one
\* and at most three reported entries (an informational entry for a
\* shortened projection or validation comes on top of the final one), so
\* the sum lies between the number of attempts and three times that number.
C3_SumBetweenOnceAndThriceAttempts ==
    \A id \in EdgeIds :
        attempts[id] > 0 =>
            /\ attempts[id] <= EdgeStatSum(id)
            /\ EdgeStatSum(id) <= 3 * attempts[id]

\* An edge selected once for which getEdgeStat sums to three.
C3_OneAttemptThreeEntries ==
    \E id \in EdgeIds : attempts[id] = 1 /\ EdgeStatSum(id) = 3

\* C4: getEdgeStat returns as many entries as errorList names outcomes
\* (seven) for every edge, selected by extend or not.
C4_EdgeStatMatchesErrorList ==
    planner.outcome = "planner" =>
        \A id \in EdgeIds :
            Len(getEdgeStat(statistics, EdgeOfId(id))) = Len(errorList)

\* ------------------------------------------------------- create's errors
\* C5: create with a manipulation problem and a roadmap that is not the
\* manipulation specialisation fails with the invalid-argument error about
\* the roadmap, and returns no planner.
C5_ForeignRoadmapIsRejected ==
    (planner.outcome # "none" /\ createArgs.problem /\ ~createArgs.roadmap)
    => (planner.outcome = "invalid_argument" /\ planner.what = RoadmapMessage)

\* C6: create with a problem that is not the manipulation specialisation and
\* a manipulation roadmap fails with the invalid-argument error that names
\* the problem.
C6_ForeignProblemIsNamed ==
    (planner.outcome # "none" /\ ~createArgs.problem /\ createArgs.roadmap)
    => (planner.outcome = "invalid_argument" /\ planner.what = ProblemMessage)

\* ------------------------------------------------- the extension loop
\* C7, as stated: a node created earlier in the step is never returned by
\* nearestNode to a later iteration of the step.
C7_NearestIsFromStepStart == last.near <= stepStartNodes

\* C7, amended: nearestNode searches the roadmap as it is when called; a
\* node created earlier in the step is returned to later iterations, but
\* only to those of the connected component whose extension created it.
C7_NewNodeSeenOnlyByItsComponent ==
    last.near > stepStartNodes => born[last.near] = last.cc

\* An iteration that extends from a node an earlier iteration of the same
\* step inserted.
C7_ExtendedFromNodeOfThisStep ==
    /\ last.called
    /\ last.near > stepStartNodes
    /\ born[last.near] = last.cc

\* C8: every roadmap edge's path starts at the configuration of the edge's
\* source node and ends at that of its destination node.
C8_EdgePathsJoinTheirNodes ==
    \A i \in DOMAIN roadmap.edges :
        LET e == roadmap.edges[i] IN
        /\ PathStart(e.path) = roadmap.nodes[e.from].q
        /\ PathEnd(e.path) = roadmap.nodes[e.to].q

\* ------------------------------------------------------ one call of extend
\* The last iteration called extend, an edge was chosen and the validator
\* set a valid part of non-zero length.
LastValidated ==
    /\ last.called /\ last.edge # 0
    /\ last.fullValidPath # NoPath
    /\ length(last.fullValidPath) > 0

\* The cautious extraction of the last call failed (projection_error).
LastExtractFailed == world.throws /\ ~keepsWholePath(extendStep_, last.fullyValid)

\* C9: when the validator returns false with a valid part of non-zero
\* length, extend records PATH_VALIDATION_SHORTER and PARTLY_EXTENDED for
\* the edge, records no success, and returns true with a valid path.
C9_PartialValidityIsPartlyExtended ==
    (LastValidated /\ ~last.fullyValid /\ ~LastExtractFailed)
    => /\ last.added.nbFailure[PATH_VALIDATION_SHORTER + 1] = 1
       /\ last.added.nbFailure[PARTLY_EXTENDED + 1] = 1
       /\ last.added.nbSuccess = 0
       /\ last.ret
       /\ length(last.validPath) > 0

\* C10, as stated: with extendStep below 1, extend on a path the validator
\* reports fully valid returns true with the prefix of duration
\* extendStep * length and records one PARTLY_EXTENDED.
C10_FullyValidIsCutByExtendStep ==
    (LastValidated /\ last.fullyValid /\ extendStep_.num < extendStep_.den)
    => /\ last.ret
       /\ last.validPath =
              extract(last.fullValidPath, 0,
                      extendLength(length(last.fullValidPath), extendStep_))
       /\ last.added.nbFailure[PARTLY_EXTENDED + 1] = 1

\* C10, amended: a fully valid path is kept whole whatever extendStep is,
\* and counts as a success (as PARTLY_EXTENDED only when the projection was
\* shortened); the fraction extendStep is applied to partially valid paths.
C10_FullyValidIsKeptWhole ==
    /\ (LastValidated /\ last.fullyValid /\ extendStep_.num < extendStep_.den)
       => /\ last.ret
          /\ last.validPath = last.fullValidPath
          /\ last.added.nbSuccess = (IF last.projShorter THEN 0 ELSE 1)
          /\ last.added.nbFailure[PARTLY_EXTENDED + 1] =
                 (IF last.projShorter THEN 1 ELSE 0)
    /\ (LastValidated /\ ~last.fullyValid /\ last.ret
            /\ extendStep_.num < extendStep_.den)
       => last.validPath =
              extract(last.fullValidPath, 0,
                      extendLength(length(last.fullValidPath), extendStep_))

\* extendStep is 1/2 and extend returned a fully valid path two cells long,
\* whole.
C10_TwoCellsKeptWhole ==
    /\ LastValidated /\ last.fullyValid /\ last.ret
    /\ extendStep_ = [num |-> 1, den |-> 2]
    /\ length(last.fullValidPath) = 2 * Scale
    /\ length(last.validPath) = 2 * Scale
    /\ last.added.nbSuccess = 1


\* ------------------------------------------------ failures of the edge
\* The failure counts of edge id for the reasons other than `reason'.
OtherFailures(id, reason) ==
    { StatOf(statistics, id).nbFailure[r + 1] :
          r \in (0 .. Len(reasons_) - 1) \ {reason} }

\* C11: an edge selected by extend whose applyConstraints has failed on
\* every call has one PROJECTION failure per selection, no success, no
\* failure of any other reason, and no path inserted in the roadmap, at once
\* or delayed, by an extension along it.
C11_NeverProjectedOnlyProjectionFailures ==
    \A id \in EdgeIds :
        (attempts[id] > 0 /\ id \notin history.projected) =>
            /\ StatOf(statistics, id).nbFailure[PROJECTION + 1] = attempts[id]
            /\ StatOf(statistics, id).nbSuccess = 0
            /\ OtherFailures(id, PROJECTION) \subseteq {0}
            /\ history.inserts[id] = 0

\* An edge selected MaxExtends times and never projected.
C11_EdgeNeverProjectedTwice ==
    \E id \in EdgeIds :
        /\ attempts[id] = MaxExtends
        /\ id \notin history.projected
        /\ StatOf(statistics, id).nbFailure[PROJECTION + 1] = MaxExtends

\* C12: an edge selected by extend for which applyConstraints has always
\* succeeded and edge->build has always failed has one STEERING_METHOD
\* failure per selection and nothing else, each of these calls returned
\* false, and no path was inserted by an extension along it: MaxExtends
\* selections give MaxExtends STEERING_METHOD failures and no node.
C12_NeverSteeredOnlySteeringFailures ==
    /\ \A id \in EdgeIds :
          (/\ attempts[id] > 0
           /\ id \notin history.unprojected
           /\ id \notin history.steered) =>
              /\ StatOf(statistics, id).nbFailure[STEERING_METHOD + 1] = attempts[id]
              /\ StatOf(statistics, id).nbSuccess = 0
              /\ OtherFailures(id, STEERING_METHOD) \subseteq {0}
              /\ history.inserts[id] = 0
    /\ (last.called /\ last.edge # 0 /\ last.proj /\ ~last.steer) =>
          /\ ~last.ret
          /\ last.inserted = 0
          /\ last.added.nbSuccess = 0
          /\ last.added.nbFailure =
                 [r \in 1 .. Len(reasons_) |->
                     IF r = STEERING_METHOD + 1 THEN 1 ELSE 0]

\* MaxExtends calls of extend selected one edge, projected each time and
\* never steered, and no path was inserted in the roadmap.
C12_EdgeNeverSteeredEveryCall ==
    \E id \in EdgeIds :
        /\ attempts[id] = MaxExtends
        /\ calls = MaxExtends
        /\ id \notin history.steered
        /\ StatOf(statistics, id).nbFailure[STEERING_METHOD + 1] = MaxExtends
        /\ \A other \in EdgeIds : history.inserts[other] = 0
        /\ last.called /\ last.proj /\ ~last.steer

\* ------------------------------------------------------ roadmap edges
\* The times where one sub-path of a PathVector hands over to the next.
Breaks(p) ==
    IF p.kind # "vec" THEN {}
    ELSE { length(Vec(SubSeq(p.subs, 1, k))) : k \in 1 .. (Len(p.subs) - 1) }

\* The breaks strictly inside the path: there it has two values when the
\* sub-paths do not join.
Junctions(p) == Breaks(p) \ {0, length(p)}

\* Times of p that tell it from any other path with the breaks of p or of
\* r reversed: both ends, every break and the times next to it (a sub-path
\* is a straight line between its ends).
SampleTimes(p, r) ==
    LET marks == {0, length(p)} \cup Breaks(p)
                    \cup { length(p) - b : b \in Breaks(r) }
    IN  { t \in UNION { {b - 1, b, b + 1} : b \in marks } :
            0 <= t /\ t <= length(p) }

\* Whether r is p reversed in time: as long, and at time length - t where
\* p is at time t, the junctions of p apart.
TimeReversed(p, r) ==
    /\ length(r) = length(p)
    /\ \A t \in SampleTimes(p, r) \ Junctions(p) :
          eval(r, length(p) - t) = eval(p, t)

\* C13: every directed roadmap edge a -> b has a reverse edge b -> a that
\* carries its path reversed in time, whichever phase of oneStep added it.
C13_EveryEdgeHasItsReverse ==
    \A i \in DOMAIN roadmap.edges :
        \E j \in DOMAIN roadmap.edges :
            /\ roadmap.edges[j].from = roadmap.edges[i].to
            /\ roadmap.edges[j].to = roadmap.edges[i].from
            /\ TimeReversed(roadmap.edges[i].path, roadmap.edges[j].path)

\* A roadmap that holds the edges of an insertion by the extension loop
\* and those of a connection.
C13_EdgesOfInsertionAndConnection ==
    /\ pc = "idle"
    /\ \E id \in EdgeIds : history.inserts[id] > 0
    /\ history.connections > 0
    /\ Len(roadmap.edges) >= 4

\* C14: the node addNodeAndEdges creates in the extension loop has a
\* configuration no earlier node of the roadmap has.
C14_DirectInsertIsNewConfiguration ==
    last.inserted # 0 =>
        \A n \in 1 .. (last.inserted - 1) :
            roadmap.nodes[n].q # roadmap.nodes[last.inserted].q

\* ------------------------------------ connection phases on their own
\* Cells of the nodes of the roadmaps handed to a connection phase.
ConnectCells == <<0, 1, MaxCell>>

\* The nodes joined to n by edges both ways, n included.
RECURSIVE joinedBothWays(_, _)
joinedBothWays(S, E) ==
    LET T == S \cup { e[2] : e \in { f \in E : f[1] \in S /\ <<f[2], f[1]>> \in E } }
    IN  IF T = S THEN S ELSE joinedBothWays(T, E)

\* The component of node n under the links E, named by its first node.
componentUnder(n, E) == SetMin(joinedBothWays({n}, E))

\* Links between these nodes (origin, destination).  Nodes joined both
\* ways share a component; between components links go one way, and no
\* component both receives such a link and sends one, so that the nodes of
\* two components never reach each other.
Links ==
    { E \in SUBSET { pr \in (DOMAIN ConnectCells) \X (DOMAIN ConnectCells) :
                       pr[1] # pr[2] } :
        \A e \in E : \A f \in E :
            (/\ componentUnder(e[1], E) # componentUnder(e[2], E)
             /\ componentUnder(f[1], E) # componentUnder(f[2], E))
            => componentUnder(e[2], E) # componentUnder(f[1], E) }

\* The links of a set, in the order of their origin, then destination.
LinkSeq(E) ==
    LET keys == Ascending({ e[1] * (Len(ConnectCells) + 1) + e[2] : e \in E }) IN
    [i \in DOMAIN keys |-> << keys[i] \div (Len(ConnectCells) + 1),
                              keys[i] % (Len(ConnectCells) + 1) >>]

\* The roadmap of the nodes of ConnectCells under the links E, every edge
\* carrying the straight path between its nodes.
linkedRoadmap(w, E) ==
    [nodes |-> [n \in DOMAIN ConnectCells |->
                  RoadmapNode(Pos(ConnectCells[n]), componentUnder(n, E),
                              graphNodeOf(w, Pos(ConnectCells[n])))],
     edges |-> [i \in DOMAIN LinkSeq(E) |->
                  RoadmapEdge(LinkSeq(E)[i][1], LinkSeq(E)[i][2],
                              Leaf(Pos(ConnectCells[LinkSeq(E)[i][1]]),
                                   Pos(ConnectCells[LinkSeq(E)[i][2]]), 0))],
     ccs |-> { componentUnder(n, E) : n \in DOMAIN ConnectCells }]

\* Roadmaps a connection phase may be handed.
ConnectRoadmaps(w) == { linkedRoadmap(w, E) : E \in Links }

\* Lists of nodes handed to a connection phase: distinct nodes, any order.
NodeLists(rm) ==
    { l \in UNION { [1 .. n -> DOMAIN rm.nodes] : n \in 1 .. Len(rm.nodes) } :
        \A i \in DOMAIN l : \A j \in DOMAIN l : l[i] = l[j] => i = j }

\* Worlds of a connection phase: no obstacle, or one between the last two
\* nodes.
ConnectWorlds ==
    { World({}, {}, EdgeIds, FALSE), World({MaxCell - 1}, {}, EdgeIds, FALSE) }

\* A planner about to call tryConnectNewNodes (nodes) or
\* tryConnectToRoadmap (nodes).
InitConnect ==
    /\ world \in ConnectWorlds
    /\ endless = FALSE
    /\ val = ValIdle
    /\ planner = create(TRUE, TRUE)
    /\ createArgs = [problem |-> TRUE, roadmap |-> TRUE]
    /\ problem = [pathProjector |-> FALSE]
    /\ extendStep_ = [num |-> 1, den |-> 1]
    /\ roadmap \in ConnectRoadmaps(world)
    /\ statistics = NoStatistics
    /\ pc \in {"connectNew", "connectRoadmap"}
    /\ steps = 1
    /\ q_rand = Pos(0)
    /\ pending = <<>>
    /\ newNodes \in NodeLists(roadmap)
    /\ delayedEdges = <<>>
    /\ nbConn = 0
    /\ stepStartNodes = Len(roadmap.nodes)
    /\ born = [n \in DOMAIN roadmap.nodes |-> 0]
    /\ attempts = [id \in EdgeIds |-> 0]
    /\ calls = 0
    /\ history = [NoHistory EXCEPT !.edges0 = Len(roadmap.edges)]
    /\ last = NoLast

NextConnect == TryConnectNewNodes \/ TryConnectToRoadmap
SpecConnect == InitConnect /\ [][NextConnect]_vars

\* C15: tryConnectNewNodes and tryConnectToRoadmap add a directed edge
\* only where there was none: handed a roadmap in which no two edges join
\* the same nodes in the same direction, they leave such a roadmap, whether
\* the nodes they connect had no edge, or an edge one way, between them.
C15_NoParallelEdges ==
    \A i \in DOMAIN roadmap.edges : \A j \in DOMAIN roadmap.edges :
        (/\ roadmap.edges[i].from = roadmap.edges[j].from
         /\ roadmap.edges[i].to = roadmap.edges[j].to) => i = j

\* A connection phase has connected two nodes that had an edge one way
\* between them: the edge the other way is new, and the first is still
\* the only one of its direction.
C15_MissingDirectionAdded ==
    /\ history.connections > 0
    /\ \E i \in 1 .. history.edges0 :
          \E j \in (history.edges0 + 1) .. Len(roadmap.edges) :
             /\ roadmap.edges[j].from = roadmap.edges[i].to
             /\ roadmap.edges[j].to = roadmap.edges[i].from
             /\ \A k \in DOMAIN roadmap.edges :
                   (/\ roadmap.edges[k].from = roadmap.edges[i].from
                    /\ roadmap.edges[k].to = roadmap.edges[i].to) => k = i
             /\ \A k \in DOMAIN roadmap.edges :
                   (/\ roadmap.edges[k].from = roadmap.edges[j].from
                    /\ roadmap.edges[k].to = roadmap.edges[j].to) => k = j

\* ---------------------------------------------------- phases of oneStep
\* The phases of a whole oneStep that served n pairs and fell back.
PhasesOfStep(n) ==
    [i \in 1 .. n |-> "extend"] \o <<"delayed", "connectNew", "connectRoadmap">>

\* C16: the phases of oneStep run in the order extension loop over every
\* (component, graph node) pair, delayed edges, tryConnectNewNodes,
\* tryConnectToRoadmap; a step that completed ran tryConnectToRoadmap if
\* and only if tryConnectNewNodes returned zero.
C16_PhasesInOrderFallbackIffNoConnection ==
    /\ Len(history.phases) <= history.pairs + 3
    /\ history.phases =
           SubSeq(PhasesOfStep(history.pairs), 1, Len(history.phases))
    /\ (pc = "idle" /\ steps > 0) =>
           /\ Len(history.phases) >= history.pairs + 2
           /\ Len(history.phases) = history.pairs + 3 <=> nbConn = 0
    /\ pc = "connectRoadmap" => nbConn = 0

\* A step that ended after tryConnectNewNodes made a connection.
C16_StepEndedWithoutFallback ==
    /\ pc = "idle" /\ steps > 0
    /\ nbConn > 0
    /\ Len(history.phases) = history.pairs + 2

\* ------------------------------------------- validation: lookup errors
\* Whether a getNode lookup of impl_validate fails on a leaf path the
\* collision validator shortened to part: the lookups are those of both ends
\* of part, of the start of the path and, when the first and the third
\* agree, of the end of the path.
LookupFails(w, path, part) ==
    \/ getNode(w, PathStart(part)) = {}
    \/ getNode(w, PathEnd(part)) = {}
    \/ getNode(w, PathStart(path)) = {}
    \/ /\ getNode(w, PathStart(part)) = getNode(w, PathStart(path))
       /\ getNode(w, PathEnd(path)) = {}

\* A leaf path was validated, the collision validator shortened it and a
\* getNode lookup failed.
LeafLookupFailed ==
    /\ val.res.status # "none"
    /\ val.path.kind = "leaf"
    /\ ~collisionValidate(world, val.path, val.reverse).ok
    /\ LookupFails(world, val.path,
                   collisionValidate(world, val.path, val.reverse).part)

\* C17: when a getNode lookup fails during the validation of a leaf path
\* the collision validator shortened, validate returns false and validPart
\* is the zero-length path at the start of the original path; the only
\* error that can leave the call is the projection error of that extract.
C17_LookupFailureGivesZeroLengthPart ==
    LeafLookupFailed =>
        IF world.throws THEN val.res = Thrown
        ELSE /\ val.res.status = "ret" /\ ~val.res.ok
             /\ val.res.part =
                    Leaf(PathStart(val.path), PathStart(val.path), val.path.cons)

\* A lookup failed on a path of non-zero length and validate returned.
C17_LookupFailedOnLongPath ==
    /\ LeafLookupFailed
    /\ val.res.status = "ret"
    /\ length(val.path) > 0
    /\ length(val.res.part) = 0

\* Rank of the sub-path of a PathVector that reverse validation, scanning
\* from the end, finds invalid first.
LastInvalid(w, path) ==
    SetMax({ j \in 1 .. Len(path.subs) : ~validate(w, path.subs[j], TRUE).ok })

\* C18: reverse validation of a PathVector whose last invalid sub-path is
\* at rank i returns false with validPart = the valid suffix of sub-path i
\* followed by the sub-paths after rank i, in order.
C18_ValidPartIsSuffixThenSuccessors ==
    (val.res.status = "ret" /\ val.reverse /\ val.path.kind = "vec" /\ ~val.res.ok)
    => LET i == LastInvalid(world, val.path) IN
       val.res.part =
           Vec(<<validate(world, val.path.subs[i], TRUE).part>>
               \o SubSeq(val.path.subs, i + 1, Len(val.path.subs)))

\* ------------------------------------------------- merging components
\* The first oneStep is over, on a roadmap that had two components, without
\* obstacle or projection error, every extension chose the edge of the
\* node free, and projection, steering and path projection succeeded in
\* every call, as did steering in the connection phases.
SmoothStepOnTwoComponents ==
    /\ steps = 1
    /\ stepStartNodes = 2
    /\ pc \in {"idle", "threw", "assertFailed"}
    /\ world.obst = {} /\ ~world.throws
    /\ history.smooth
    /\ \A id \in EdgeIds \ {1} : attempts[id] = 0

\* C19: one oneStep on a roadmap of two components, with a single graph
\* node and steering, projection and validation that always succeed, runs
\* to completion and leaves a single component.
C19_SmoothStepMergesComponents ==
    SmoothStepOnTwoComponents =>
        (pc = "idle" /\ Cardinality(roadmap.ccs) = 1)

\* ------------------------------------------------ reaching grasp
\* An endless run in a world without obstacle or projection error.
InitFair ==
    /\ world = World({}, {}, EdgeIds, FALSE)
    /\ endless = TRUE
    /\ val = ValIdle
    /\ PlannerIdle

\* An iteration of the extension loop from a node of free in which
\* chooseEdge returns the edge grasp and projection, steering, path
\* projection and validation succeed.
graspPair(cc, near) ==
    /\ near # 0
    /\ GraspEnv \in BudgetedEnvs("free", roadmap.nodes[near].q)
    /\ \E r \in { extend(world, statistics, problem.pathProjector,
                          extendStep_, roadmap.nodes[near].q, q_rand, GraspEnv) } :
          /\ r.fullyValid
          /\ afterExtend(cc, "free", near, GraspEnv, r)

GraspExtension ==
    /\ pc = "extend" /\ pending # <<>>
    /\ Head(pending)[2] = "free"
    /\ pending' = Tail(pending)
    /\ graspPair(Head(pending)[1],
                 nearInLoop(roadmap, q_rand, Head(pending)[1], "free"))
    /\ UNCHANGED <<world, endless, val, planner, createArgs, problem, extendStep_, pc, steps, q_rand,
                   nbConn, stepStartNodes>>

\* oneStep called again and again, each phase running to its end.
SpecFair == InitFair /\ [][Next]_vars /\ WF_vars(Next)

\* A chooseEdge and an edge grasp that, asked again and again, pick the
\* edge and succeed again and again.
GraspSucceedsAgainAndAgain == SF_vars(GraspExtension)

\* create has built a planner around a roadmap that holds the start
\* configuration alone, in free.
ReadyFromStart ==
    /\ planner.outcome = "planner" /\ planner.roadmap
    /\ steps = 0 /\ pc = "idle"
    /\ Len(roadmap.nodes) = 1 /\ roadmap.nodes[1].gn = "free"

\* C20: with a fair chooseEdge and an edge grasp on which projection,
\* steering and validation succeed infinitely often, repeated calls of
\* oneStep from a start configuration in free lead to a roadmap node that
\* lies in grasp.
C20_GraspNodeEventually ==
    GraspSucceedsAgainAndAgain => (ReadyFromStart ~> HasGraspNode)

\* A node lies in grasp after MaxExtends extensions that gave none.
C20_GraspNodeAfterFailures ==
    /\ endless
    /\ calls = MaxExtends
    /\ history.inserts[GraspEnv.edge.id] = 1
    /\ attempts[GraspEnv.edge.id] > 1
    /\ HasGraspNode
    /\ pc = "idle"

\* ------------------------------------- collision on the same edge (C21)
\* The leaf handed to validate is shortened by the collision validator and
\* the ends of the shortened path lie in the nodes of the ends of the leaf.
ShortenedOnSameNodes ==
    /\ val.path.kind = "leaf"
    /\ val.res.status # "none"
    /\ ~collisionValidate(world, val.path, val.reverse).ok
    /\ LET nc == collisionValidate(world, val.path, val.reverse).part IN
          /\ getNode(world, PathStart(nc)) # {}
          /\ getNode(world, PathEnd(nc)) # {}
          /\ getNode(world, PathStart(nc)) = getNode(world, PathStart(val.path))
          /\ getNode(world, PathEnd(nc)) = getNode(world, PathEnd(val.path))

\* C21: a leaf that collision validation shortens to pathNoCollision, whose
\* ends lie in the same graph nodes as the ends of the leaf, makes validate
\* return false with validPart = pathNoCollision, carrying the constraints
\* of the leaf: no edge was looked up and no constraint attached.
C21_SameNodesGivesCollisionFreePart ==
    ShortenedOnSameNodes =>
        /\ val.res = Ret(FALSE, collisionValidate(world, val.path, val.reverse).part)
        /\ val.res.part.cons = val.path.cons

\* Such a leaf was validated, forward, in a world where an edge lookup
\* would have found a transition whose constraint holds.
C21_ShortenedLeafValidated ==
    /\ ShortenedOnSameNodes
    /\ ~val.reverse
    /\ world.onLeaf = EdgeIds
    /\ length(val.res.part) > 0
    /\ length(val.res.part) < length(val.path)

\* ------------------------------------ what a step adds to the roadmap (C22)
\* The nodes the running step added.
NodesOfStep == (stepStartNodes + 1) .. Len(roadmap.nodes)

\* The edges the running step added.
EdgesOfStep ==
    { roadmap.edges[i] : i \in (history.edges0 + 1) .. Len(roadmap.edges) }

\* Whether node n was created for the extension g: it lies at the end of
\* the path, the edge from the node extended carries the path and the edge
\* back carries it reversed in time.
CreatedFor(n, g) ==
    /\ roadmap.nodes[n].q = PathEnd(g.path)
    /\ RoadmapEdge(g.near, n, g.path) \in EdgesOfStep
    /\ \E e \in EdgesOfStep :
          /\ e.from = n /\ e.to = g.near
          /\ TimeReversed(g.path, e.path)

\* C22: once the delayed edges of a step are inserted, every call of extend
\* of the step that returned true with a path of non-zero length has a
\* roadmap node of its own, created by the step, with the edge from the node
\* extended carrying the path and the edge back carrying the reversed path;
\* the step added that many nodes and twice that many edges, no more.
C22_OneNodeTwoEdgesPerExtension ==
    pc = "connectNew" =>
        /\ Len(roadmap.nodes) = stepStartNodes + Len(history.grown)
        /\ Len(roadmap.edges) = history.edges0 + 2 * Len(history.grown)
        /\ \E f \in [DOMAIN history.grown -> NodesOfStep] :
              /\ \A k, l \in DOMAIN history.grown : f[k] = f[l] => k = l
              /\ \A k \in DOMAIN history.grown : CreatedFor(f[k], history.grown[k])

\* A step inserted one path directly and one through the delayed edges.
C22_DirectAndDelayedInserted ==
    /\ pc = "connectNew"
    /\ Len(newNodes) = 1
    /\ Len(delayedEdges) = 1
    /\ Len(history.grown) = 2

\* ------------------------------------------ slots of the statistics (C23)
\* The slot indexPerEdgeStatistics_ gives id: -1 when the vector ends
\* before id or holds -1 there.
SlotOf(st, id) == IF Len(st.index) <= id THEN -1 ELSE st.index[id + 1]

\* The ids of graph components an index vector can cover.
ComponentIds == 0 .. SetMax(EdgeIds)

\* The edge ids some call of extend has chosen.
ObservedIds == { id \in EdgeIds : attempts[id] > 0 }

\* The mapping is consistent: the ids with a slot are the observed ones,
\* their slots are different entries of perEdgeStatistics_, each created for
\* the edge, and there are no other entries.
SlotsConsistent ==
    /\ \A id \in ComponentIds : SlotOf(statistics, id) >= 0 <=> id \in ObservedIds
    /\ \A id \in ObservedIds :
          /\ SlotOf(statistics, id) < Len(statistics.stats)
          /\ statistics.stats[SlotOf(statistics, id) + 1].name = EdgeOfId(id).name
    /\ \A id1, id2 \in ObservedIds :
          SlotOf(statistics, id1) = SlotOf(statistics, id2) => id1 = id2
    /\ Len(statistics.stats) = Cardinality(ObservedIds)

\* A step of the planner keeps the slot of every id that has one, and
\* changes no statistic unless a call of extend chose an edge.
SlotsStable ==
    /\ \A id \in ComponentIds :
          SlotOf(statistics, id) >= 0 =>
              SlotOf(statistics', id) = SlotOf(statistics, id)
    /\ attempts' = attempts => statistics' = statistics

\* C23: after any sequence of calls of extend the mapping from edge ids to
\* slots is consistent: an id has a slot from the first call that chose it
\* and keeps it, a call where chooseEdge returns none changes nothing,
\* observed ids have different slots, unobserved ids map to -1 or lie
\* beyond the index vector, and there are as many slots as observed ids.
C23_SlotsStayConsistent == [](SlotsConsistent) /\ [][SlotsStable]_vars

\* The edge grasp was chosen before the edge move: the index vector covers
\* ids 0 to 2, id 0 without a slot, and the call that chose the edge move
\* has just created the second slot.
C23_TwoSlotsInOrderOfObservation ==
    /\ statistics.index = <<-1, 1, 0>>
    /\ Len(statistics.stats) = 2
    /\ last.called /\ last.edge = 1
    /\ attempts[1] = 1

\* ------------------------------ assertions of the connection phases (C24, C25)
\* The phase of oneStep that ran last.
LastPhase ==
    IF history.phases = <<>> THEN "" ELSE history.phases[Len(history.phases)]

\* C24: the assertion *q1 != *q2 of tryConnectToRoadmap holds whenever the
\* phase reaches it: a new node and a nearest node of another component
\* never have the same configuration.
C24_ConnectToRoadmapNeverAsserts ==
    ~(pc = "assertFailed" /\ LastPhase = "connectRoadmap")

\* C25: when the extension loop of oneStep has ended the nodes of newNodes
\* have pairwise different configurations, and the assertion *q1 != *q2 of
\* tryConnectNewNodes does not fail.
C25_NewNodesPairwiseDifferent ==
    /\ (pc \in {"connectNew", "connectRoadmap"} \/ (pc = "extend" /\ pending = <<>>)) =>
          \A i, j \in DOMAIN newNodes :
              roadmap.nodes[newNodes[i]].q = roadmap.nodes[newNodes[j]].q => i = j
    /\ ~(pc = "assertFailed" /\ LastPhase = "connectNew")

\* tryConnectNewNodes has passed the assertion on two new nodes that the
\* extensions of two components made.
C25_NewNodesOfTwoComponentsTried ==
    /\ LastPhase = "connectNew"
    /\ pc \in {"idle", "connectRoadmap"}
    /\ Len(newNodes) = 2
    /\ born[newNodes[1]] # born[newNodes[2]]

\* ------------------------------------- outcomes of successful calls (C26)
\* Successes and partial extensions recorded for edge id.
OutcomesOf(id) ==
    StatOf(statistics, id).nbSuccess
        + StatOf(statistics, id).nbFailure[PARTLY_EXTENDED + 1]

\* C26: for every edge the recorded successes plus the recorded
\* PARTLY_EXTENDED outcomes are as many as the calls of extend that chose
\* the edge and returned true; the last call recorded exactly one of the
\* two when it returned true and neither when it returned false.
C26_OutcomesCountTrueReturns ==
    /\ \A id \in EdgeIds : OutcomesOf(id) = history.returnedTrue[id]
    /\ (last.called /\ last.edge # 0) =>
          last.added.nbSuccess + last.added.nbFailure[PARTLY_EXTENDED + 1]
              = IF last.ret THEN 1 ELSE 0

\* An edge chosen twice, both calls returning true: one recorded a success
\* and the other PARTLY_EXTENDED.
C26_SuccessPartialAndFailure ==
    \E id \in EdgeIds :
        /\ StatOf(statistics, id).nbSuccess = 1
        /\ StatOf(statistics, id).nbFailure[PARTLY_EXTENDED + 1] = 1
        /\ history.returnedTrue[id] = 2
        /\ last.called /\ last.edge = id

\* ------------------------------------- re-validation at a node change (C27)
\* The transitions getEdge returns for the ends of the collision-free part
\* of the leaf handed to validate, forward.
BoundaryEdges ==
    LET nc == collisionValidate(world, val.path, FALSE).part IN
    getEdge(getNode(world, PathStart(nc)), getNode(world, PathEnd(nc)))

\* Those whose path constraint is satisfied at the end of that part.
SatisfiedBoundaryEdges ==
    LET nc == collisionValidate(world, val.path, FALSE).part IN
    { i \in DOMAIN BoundaryEdges :
        isSatisfied(world, BoundaryEdges[i], PathStart(nc), PathEnd(nc)) }

\* validate was called, forward, on a leaf that the collision validator
\* shortened to a part that ends in another graph node than the leaf, every
\* configuration looked up lying in a node, and a transition between the
\* nodes of the ends of the part has its constraint satisfied: the call
\* reached line 125.
RevalidatedLeaf ==
    /\ val.path.kind = "leaf"
    /\ ~val.reverse
    /\ val.res.status # "none"
    /\ ~collisionValidate(world, val.path, FALSE).ok
    /\ LET nc == collisionValidate(world, val.path, FALSE).part IN
          /\ getNode(world, PathStart(nc)) # {}
          /\ getNode(world, PathEnd(nc)) # {}
          /\ getNode(world, PathStart(val.path)) # {}
          /\ getNode(world, PathEnd(val.path)) # {}
          /\ ~sameNodes(getNode(world, PathStart(nc)), getNode(world, PathEnd(nc)),
                        getNode(world, PathStart(val.path)),
                        getNode(world, PathEnd(val.path)))
    /\ SatisfiedBoundaryEdges # {}

\* What validate leaves in that case: false, with the collision-free part
\* carrying the constraint of the transition taken, after one nested call.
RevalidatedResult ==
    LET nc == collisionValidate(world, val.path, FALSE).part
        e == BoundaryEdges[SetMax(SatisfiedBoundaryEdges)]
    IN  [Ret(FALSE, [nc EXCEPT !.cons = e.id]) EXCEPT !.nested = 1]

\* No call nests more than one re-validation in the validation of a leaf,
\* and the branch that re-validates returns false after exactly one.
NestsAtMostOnce ==
    /\ val.res.nested <= 1
    /\ val.res2.nested <= 1
    /\ RevalidatedLeaf => val.res = RevalidatedResult

\* C27: with the deterministic collision validator, which accepts the parts
\* it returned, validate terminates on every path, leaf or nested
\* PathVector: the re-validation of pathNoCollision at a change of graph
\* node nests at most one call per leaf, and the call returns false there.
C27_ValidateTerminatesNestingOnce ==
    [](NestsAtMostOnce) /\ <>(val.res.status # "none")

\* A leaf was re-validated at a change of graph node: the nested call got a
\* path of non-zero length that the collision validator accepts.
C27_LeafRevalidatedOnce ==
    /\ RevalidatedLeaf
    /\ val.res.nested = 1
    /\ collisionValidate(world, val.res.part, FALSE).ok
    /\ length(val.res.part) > 0

====
